---- MODULE Spec2Model ----
(***************************************************************************)
(* Model of two components of protein_set_transformer:                     *)
(*   - pst.cross_validation.cv.ImbalancedGroupKFold  (specification Spec)  *)
(*   - pst.data.graph.GenomeGraph edge-index builders (SpecGraph)          *)
(*   - pst.training.tuning parallel objective and device queue (SpecTune)  *)
(* Arrays are sequences; array VALUES (indices, group ids, node ids) are   *)
(* 0-based as in the source, sequence POSITIONS are 1-based.               *)
(***************************************************************************)
EXTENDS Integers, Sequences, FiniteSets, TLC

\* ---------------------------------------------------------------- bounds
MaxN == 3          \* longest group-label array drawn by Init
MaxLabel == 3      \* raw group labels are drawn from 0..MaxLabel
MaxNodes == 7      \* largest num_nodes passed to the edge-index builders
MaxChunk == 3      \* largest chunk_size
MaxThreshold == 3  \* largest threshold
MaxThreadN == 3    \* longest label array of the thread-level runs
MaxThreadLabel == 2 \* their largest raw group id
MaxDeviceCount == 3 \* largest `devices` argument (= n_jobs) of optimize
MaxListed == 2     \* most ids listed in CUDA_VISIBLE_DEVICES
MaxTrials == 3     \* largest n_trials

VARIABLES
    \* ---- ImbalancedGroupKFold instance
    labels,          \* the caller's group-label array (argument of __init__)
    X_idx,           \* self.X_idx
    uniq_groups,     \* self.uniq_groups (after _sort_groups)
    groups,          \* self.groups (inverse index of np.unique, never re-mapped)
    group_counts,    \* self.group_counts (after _sort_groups)
    n_folds,         \* self.n_folds
    val_group_id,    \* self.val_group_id
    train_group_ids, \* self.train_group_ids
    \* ---- split() generators
    pc,              \* per generator: "idle" (not created), "running", "done"
    fold_idx,        \* per generator: number of enumerate() items consumed
    yielded,         \* per generator: the folds it has yielded so far
    \* ---- GenomeGraph
    num_proteins, edge_strategy, chunk_size, threshold, \* constructor arguments
    edge_index,      \* self.edge_index (None or a sequence of <<u, v>>)
    call,            \* the last call made: [fn, arguments...]
    ret,             \* its outcome: [exc |-> name] or [exc |-> "none", val |-> result]
    \* ---- optimize(parallel=True)
    device_count,    \* cv_trainer_kwargs["devices"], also n_jobs
    devices,         \* the ids listed in CUDA_VISIBLE_DEVICES
    n_trials,        \* n_trials
    queue,           \* the manager.Queue of free device ids
    tpc,             \* per job: "idle", "get" (in queue.get), "training"
    device_id,       \* per job: the local device_id of _parallel_objective
    started,         \* trials whose objective has been entered
    finished,        \* trials whose objective returned
    raised           \* trials whose train_with_cross_validation raised

cvVars == <<labels, X_idx, uniq_groups, groups, group_counts, n_folds,
            val_group_id, train_group_ids, pc, fold_idx, yielded>>
graphVars == <<num_proteins, edge_strategy, chunk_size, threshold,
               edge_index, call, ret>>
tuneVars == <<device_count, devices, n_trials, queue, tpc, device_id,
              started, finished, raised>>
vars == <<cvVars, graphVars, tuneVars>>

\* Python's None where a tensor is expected: a tensor record of no dimension
None == [ndim |-> 0, cols |-> <<>>]

\* no builder call has been made yet
NoCall == [fn |-> "none"]

NoRet == [exc |-> "unset"]

\* ------------------------------------------------------------- utilities
Range(s) == {s[i] : i \in DOMAIN s}

Min(S) == CHOOSE x \in S : \A y \in S : x <= y

Max(S) == CHOOSE x \in S : \A y \in S : x >= y

Abs(x) == IF x < 0 THEN -x ELSE x

\* arr[mask] for a boolean mask of the same length (order preserved)
RECURSIVE MaskSelect(_, _)
MaskSelect(arr, mask) ==
    IF arr = <<>> THEN <<>>
    ELSE (IF Head(mask) THEN <<Head(arr)>> ELSE <<>>)
         \o MaskSelect(Tail(arr), Tail(mask))

\* arr[idx] for an index array idx of 0-based positions
Take(arr, idx) == [i \in 1..Len(idx) |-> arr[idx[i] + 1]]

Reverse(s) == [i \in 1..Len(s) |-> s[Len(s) + 1 - i]]

\* ------------------------------------------------ ImbalancedGroupKFold
\* np.arange(n)
Arange(n) == [i \in 1..n |-> i - 1]

GetXIndex(grp) == Arange(Len(grp))

RECURSIVE SortedSeq(_)
SortedSeq(S) ==
    IF S = {} THEN <<>> ELSE <<Min(S)>> \o SortedSeq(S \ {Min(S)})

\* np.unique(groups, return_inverse=True): the sorted distinct labels and,
\* per item, the 0-based position of its label among them
NpUnique(grp) ==
    LET u == SortedSeq(Range(grp))
    IN  [uniq |-> u,
         inverse |-> [i \in 1..Len(grp) |->
                        (CHOOSE j \in 1..Len(u) : u[j] = grp[i]) - 1]]

\* np.bincount(x): occurrences of each value 0..max(x)
Bincount(x) ==
    IF x = <<>> THEN <<>>
    ELSE [j \in 1..(Max(Range(x)) + 1) |->
            Cardinality({i \in 1..Len(x) : x[i] = j - 1})]

Perms(n) == {p \in [1..n -> 0..(n - 1)] : \A i, j \in 1..n : i # j => p[i] # p[j]}

\* np.argsort(a) with the default (unstable) kind: every index array that
\* puts a in non-decreasing order is a possible result
Argsort(a) ==
    {p \in Perms(Len(a)) :
        \A i \in 1..(Len(a) - 1) : a[p[i] + 1] <= a[p[i + 1] + 1]}

\* the reversal left out: least frequent group first
SortIdxAscending(counts) == Argsort(counts)

\* the values sort_idx can take in _sort_groups
SortIdx(counts) == {Reverse(p) : p \in Argsort(counts)}

\* a fold for every group, the most frequent one included
NFoldsAll(ug) == Len(ug)

NFolds(ug) == Len(ug) - 1

\* the training groups without the most frequent group
TrainGroupIdsNoMajority(ug, group_id) ==
    MaskSelect(ug, [j \in 1..Len(ug) |-> ug[j] # group_id /\ j # 1])

\* np.where(self.uniq_groups != group_id) applied to self.uniq_groups
TrainGroupIds(ug, group_id) ==
    MaskSelect(ug, [j \in 1..Len(ug) |-> ug[j] # group_id])

\* the mask of the items outside the group
ValMaskInverted(g, group_id) == [i \in 1..Len(g) |-> g[i] # group_id]

\* the mask taken from the shared field, read before this fold updates it
ValMaskFromField(g, group_id) == [i \in 1..Len(g) |-> g[i] = val_group_id]

\* np.where(self.groups == group_id, True, False)
ValMask(g, group_id) == [i \in 1..Len(g) |-> g[i] = group_id]

\* the negation forgotten: every item is a training item
TrainMaskAll(val_mask) == [i \in 1..Len(val_mask) |-> TRUE]

\* ~val_mask
TrainMask(val_mask) == [i \in 1..Len(val_mask) |-> ~val_mask[i]]

\* the loop starts at the first entry of the table
NextYieldIdxNoSkip(n) == n

\* the 0-based enumerate index at which the generator yields next, having
\* consumed n items: index 0 is skipped by `continue`
NextYieldIdx(n) == IF n = 0 THEN 1 ELSE n

\* two generators on one instance: the first and the second call of split()
Iters == {1, 2}

LabelArrays == UNION {[1..n -> 0..MaxLabel] : n \in 1..MaxN}

ExampleGroups == <<0, 0, 0, 1, 1, 2>>

\* __init__(groups), groups drawn from arrays, followed by no call of split()
CvInitFrom(arrays) ==
    /\ labels \in arrays
    /\ X_idx = GetXIndex(labels)
    /\ groups = NpUnique(labels).inverse
    /\ \E sort_idx \in SortIdx(Bincount(NpUnique(labels).inverse)) :
          /\ uniq_groups = Take(NpUnique(labels).uniq, sort_idx)
          /\ group_counts = Take(Bincount(NpUnique(labels).inverse), sort_idx)
    /\ n_folds = NFolds(uniq_groups)
    /\ val_group_id = -1
    /\ train_group_ids = <<>>
    /\ pc = [it \in Iters |-> "idle"]
    /\ fold_idx = [it \in Iters |-> 0]
    /\ yielded = [it \in Iters |-> <<>>]

CvInit == CvInitFrom(LabelArrays \cup {ExampleGroups})

\* the label arrays of the thread-level runs
ThreadLabelArrays ==
    UNION {[1..n -> 0..MaxThreadLabel] : n \in 1..MaxThreadN}

CvInitThreads == CvInitFrom(ThreadLabelArrays \cup {ExampleGroups})

\* gen = splitter.split(): creates a generator, runs none of its body
Split(it) ==
    /\ pc[it] = "idle"
    /\ pc' = [pc EXCEPT ![it] = "running"]
    /\ UNCHANGED <<labels, X_idx, uniq_groups, groups, group_counts, n_folds,
                   val_group_id, train_group_ids, fold_idx, yielded>>

\* next(gen) that reaches the yield statement
YieldFold(it) ==
    /\ pc[it] = "running"
    /\ NextYieldIdx(fold_idx[it]) < Len(uniq_groups)
    /\ LET group_id == uniq_groups[NextYieldIdx(fold_idx[it]) + 1]
           val_mask == ValMask(groups, group_id)
           train_mask == TrainMask(val_mask)
       IN  /\ val_group_id' = group_id
           /\ train_group_ids' = TrainGroupIds(uniq_groups, group_id)
           /\ yielded' = [yielded EXCEPT ![it] =
                 Append(@, [train_idx |-> MaskSelect(X_idx, train_mask),
                            val_idx |-> MaskSelect(X_idx, val_mask),
                            val_group_id |-> val_group_id'])]
    /\ fold_idx' = [fold_idx EXCEPT ![it] = NextYieldIdx(@) + 1]
    /\ UNCHANGED <<labels, X_idx, uniq_groups, groups, group_counts, n_folds, pc>>

\* next(gen) that runs off the end of the loop (StopIteration)
Exhaust(it) ==
    /\ pc[it] = "running"
    /\ NextYieldIdx(fold_idx[it]) >= Len(uniq_groups)
    /\ pc' = [pc EXCEPT ![it] = "done"]
    /\ fold_idx' = [fold_idx EXCEPT ![it] = Len(uniq_groups)]
    /\ UNCHANGED <<labels, X_idx, uniq_groups, groups, group_counts, n_folds,
                   val_group_id, train_group_ids, yielded>>

\* ---- the same generators advanced by threads: a next() is no longer one
\* step, the two stores to the instance are separate steps
\* for group_id in ...: self.val_group_id = group_id
StoreValGroupId(it) ==
    /\ pc[it] = "running"
    /\ NextYieldIdx(fold_idx[it]) < Len(uniq_groups)
    /\ val_group_id' = uniq_groups[NextYieldIdx(fold_idx[it]) + 1]
    /\ pc' = [pc EXCEPT ![it] = "stored"]
    /\ UNCHANGED <<labels, X_idx, uniq_groups, groups, group_counts, n_folds,
                   train_group_ids, fold_idx, yielded>>

\* self.train_group_ids = [...]; the masks from the local group_id; yield
StoreTrainGroupIdsAndYield(it) ==
    /\ pc[it] = "stored"
    /\ LET group_id == uniq_groups[NextYieldIdx(fold_idx[it]) + 1]
           val_mask == ValMask(groups, group_id)
           train_mask == TrainMask(val_mask)
       IN  /\ train_group_ids' = TrainGroupIds(uniq_groups, group_id)
           /\ yielded' = [yielded EXCEPT ![it] =
                 Append(@, [train_idx |-> MaskSelect(X_idx, train_mask),
                            val_idx |-> MaskSelect(X_idx, val_mask),
                            val_group_id |-> val_group_id])]
    /\ fold_idx' = [fold_idx EXCEPT ![it] = NextYieldIdx(@) + 1]
    /\ pc' = [pc EXCEPT ![it] = "running"]
    /\ UNCHANGED <<labels, X_idx, uniq_groups, groups, group_counts, n_folds,
                   val_group_id>>

\* ---------------------------------------------------------- GenomeGraph
\* A tensor is [ndim, cols]: an edge index of shape [2, E] has ndim = 2 and
\* cols = its E columns <<source, target>>; torch.tensor([]) has ndim = 1.
_SENTINEL_THRESHOLD == -1

_DEFAULT_EDGE_STRATEGY == "chunked"

_DEFAULT_CHUNK_SIZE == 30

Strategies == {"complete", "sparse", "chunked", "other"}

Ok(v) == [exc |-> "none", val |-> v]

Raise(e) == [exc |-> e]

\* the pairs (u, v) for every v in vs, u itself included (a product)
RECURSIVE PairsFromWithSelf(_, _)
PairsFromWithSelf(u, vs) ==
    IF vs = <<>> THEN <<>>
    ELSE <<<<u, Head(vs)>>>> \o PairsFromWithSelf(u, Tail(vs))

\* the pairs (u, v), v in vs, v # u, in the order of vs
RECURSIVE PairsFrom(_, _)
PairsFrom(u, vs) ==
    IF vs = <<>> THEN <<>>
    ELSE (IF Head(vs) # u THEN <<<<u, Head(vs)>>>> ELSE <<>>)
         \o PairsFrom(u, Tail(vs))

\* only the pairs with u < v (combinations instead of permutations)
RECURSIVE PairsAbove(_, _)
PairsAbove(u, vs) ==
    IF vs = <<>> THEN <<>>
    ELSE (IF Head(vs) > u THEN <<<<u, Head(vs)>>>> ELSE <<>>)
         \o PairsAbove(u, Tail(vs))

RECURSIVE CombinationsFrom(_, _)
CombinationsFrom(us, pool) ==
    IF us = <<>> THEN <<>>
    ELSE PairsAbove(Head(us), pool) \o CombinationsFrom(Tail(us), pool)

Combinations2(pool) == CombinationsFrom(pool, pool)

RECURSIVE PermutationsFrom(_, _)
PermutationsFrom(us, pool) ==
    IF us = <<>> THEN <<>>
    ELSE PairsFrom(Head(us), pool) \o PermutationsFrom(Tail(us), pool)

\* list(itertools.permutations(pool, r=2)): lexicographic in pool positions
Permutations2(pool) == PermutationsFrom(pool, pool)

\* torch.tensor(list(permutations(range(num_nodes), r=2))).t().contiguous()
create_fully_connected_graph(n) ==
    [ndim |-> IF Permutations2(Arange(n)) = <<>> THEN 1 ELSE 2,
     cols |-> Permutations2(Arange(n))]

\* the offset of the chunk left out: every chunk numbered from 0
NoOffset(t, offset) == t

\* edge_index + offset
AddOffset(t, offset) ==
    [ndim |-> t.ndim,
     cols |-> [e \in 1..Len(t.cols) |-> <<t.cols[e][1] + offset,
                                          t.cols[e][2] + offset>>]]

\* the filter with a strict comparison
filter_strict(t, thr) ==
    IF t.ndim = 1 THEN Raise("IndexError")
    ELSE Ok([ndim |-> 2,
             cols |-> SelectSeq(t.cols, LAMBDA e : Abs(e[1] - e[2]) < thr)])

\* the filter on the signed difference, torch.abs left out
filter_signed(t, thr) ==
    IF t.ndim = 1 THEN Raise("IndexError")
    ELSE Ok([ndim |-> 2,
             cols |-> SelectSeq(t.cols, LAMBDA e : e[1] - e[2] <= thr)])

\* edge_index[0] on a 1-d empty tensor is an IndexError
filter_edges_by_seq_distance(t, thr) ==
    IF t.ndim = 1 THEN Raise("IndexError")
    ELSE Ok([ndim |-> 2,
             cols |-> SelectSeq(t.cols, LAMBDA e : Abs(e[1] - e[2]) <= thr)])

create_sparse_graph(n, thr) ==
    filter_edges_by_seq_distance(create_fully_connected_graph(n), thr)

\* list(more_itertools.chunked(it, n=size)), size >= 1
RECURSIVE Chunked(_, _)
Chunked(it, size) ==
    IF it = <<>> THEN <<>>
    ELSE IF Len(it) <= size THEN <<it>>
    ELSE <<SubSeq(it, 1, size)>> \o Chunked(SubSeq(it, size + 1, Len(it)), size)

\* the trailing chunk deleted without being joined to the one before it
DropLast(cc) == SubSeq(cc, 1, Len(cc) - 1)

\* connected_comp[-2].extend(connected_comp[-1]); del connected_comp[-1]
MergeLast(cc) ==
    SubSeq(cc, 1, Len(cc) - 2) \o <<cc[Len(cc) - 1] \o cc[Len(cc)]>>

\* the loop over connected_comp: the list _edge_index, or the exception
\* raised by the filter
RECURSIVE ChunkEdges(_, _, _, _)
ChunkEdges(cc, offset, filter_edges, thr) ==
    IF cc = <<>> THEN Ok(<<>>)
    ELSE LET cc_num_nodes == Len(Head(cc))
             full == AddOffset(create_fully_connected_graph(cc_num_nodes), offset)
             edges == IF filter_edges
                      THEN filter_edges_by_seq_distance(full, thr)
                      ELSE Ok(full)
             rest == ChunkEdges(Tail(cc), offset + cc_num_nodes, filter_edges, thr)
         IN  IF edges.exc # "none" THEN edges
             ELSE IF rest.exc # "none" THEN rest
             ELSE Ok(<<edges.val>> \o rest.val)

\* the tensors concatenated from the last to the first
RECURSIVE CatColsReversed(_)
CatColsReversed(ts) ==
    IF ts = <<>> THEN <<>> ELSE CatColsReversed(Tail(ts)) \o Head(ts).cols

\* torch.cat(tensors, dim=1); 1-d empty tensors are skipped
RECURSIVE CatCols(_)
CatCols(ts) == IF ts = <<>> THEN <<>> ELSE Head(ts).cols \o CatCols(Tail(ts))

\* torch.cat over the list taken backwards
TorchCatReversed(ts) ==
    [ndim |-> IF \E i \in DOMAIN ts : ts[i].ndim = 2 THEN 2 ELSE 1,
     cols |-> CatColsReversed(ts)]

\* torch.cat(_edge_index, dim=1)
TorchCat(ts) ==
    [ndim |-> IF \E i \in DOMAIN ts : ts[i].ndim = 2 THEN 2 ELSE 1,
     cols |-> CatCols(ts)]

\* the partition the edges are built from, or the IndexError of
\* connected_comp[-1] / connected_comp[-2]
ConnectedComp(n, size) ==
    LET cc == Chunked(Arange(n), size)
    IN  IF cc = <<>> THEN Raise("IndexError")
        ELSE IF Len(cc[Len(cc)]) = 1
             THEN (IF Len(cc) < 2 THEN Raise("IndexError") ELSE Ok(MergeLast(cc)))
             ELSE Ok(cc)

\* the filter skipped one threshold too early
FilterEdgesBelowLast(thr, size) ==
    ~(thr = _SENTINEL_THRESHOLD \/ thr >= size - 1)

\* the distance filter never applied
FilterEdgesNever(thr, size) == FALSE

\* filter_edges: False if threshold == -1 or >= chunk_size
FilterEdges(thr, size) == ~(thr = _SENTINEL_THRESHOLD \/ thr >= size)

create_chunked_graph(n, size, thr) ==
    LET cc == ConnectedComp(n, size)
        filter_edges == FilterEdges(thr, size)
    IN  IF cc.exc # "none" THEN cc
        ELSE LET parts == ChunkEdges(cc.val, 0, filter_edges, thr)
             IN  IF parts.exc # "none" THEN parts ELSE Ok(TorchCat(parts.val))

\* the check of the threshold with the bound off by one
sparse_threshold_rejected_below_one(thr) == thr < 1

\* `if threshold <= 1: raise ValueError`
sparse_threshold_rejected(thr) == thr <= 1

\* an unrecognized strategy name rejected instead of falling back
_edge_index_create_method_strict(strategy, size, thr) ==
    IF strategy = "sparse"
    THEN (IF sparse_threshold_rejected(thr) THEN Raise("ValueError")
          ELSE Ok([fn |-> "create_sparse_graph", threshold |-> thr]))
    ELSE IF strategy = "chunked"
    THEN Ok([fn |-> "create_chunked_graph", threshold |-> thr, chunk_size |-> size])
    ELSE IF strategy = "complete"
    THEN Ok([fn |-> "create_fully_connected_graph"])
    ELSE Raise("ValueError")

\* the partial it returns, as [fn, kwargs], or the ValueError
_edge_index_create_method(strategy, size, thr) ==
    IF strategy = "sparse"
    THEN (IF sparse_threshold_rejected(thr) THEN Raise("ValueError")
          ELSE Ok([fn |-> "create_sparse_graph", threshold |-> thr]))
    ELSE IF strategy = "chunked"
    THEN Ok([fn |-> "create_chunked_graph", threshold |-> thr, chunk_size |-> size])
    ELSE Ok([fn |-> "create_fully_connected_graph"])

create_edge_index(n, strategy, size, thr) ==
    LET edge_create_fn == _edge_index_create_method(strategy, size, thr)
    IN  IF edge_create_fn.exc # "none" THEN edge_create_fn
        ELSE IF edge_create_fn.val.fn = "create_sparse_graph"
        THEN create_sparse_graph(n, edge_create_fn.val.threshold)
        ELSE IF edge_create_fn.val.fn = "create_chunked_graph"
        THEN create_chunked_graph(n, edge_create_fn.val.chunk_size,
                                  edge_create_fn.val.threshold)
        ELSE Ok(create_fully_connected_graph(n))

NodeCounts == 1..MaxNodes

ChunkSizes == 1..MaxChunk

Thresholds == _SENTINEL_THRESHOLD..MaxThreshold

\* no GenomeGraph is under study: one with the default arguments, unused
GraphIdle ==
    /\ num_proteins = 1
    /\ edge_strategy = _DEFAULT_EDGE_STRATEGY
    /\ chunk_size = _DEFAULT_CHUNK_SIZE
    /\ threshold = _SENTINEL_THRESHOLD
    /\ edge_index = None
    /\ call = NoCall
    /\ ret = NoRet

\* an edge index passed to the constructor by the caller (one the builders
\* never produce)
SuppliedEdgeIndex == [ndim |-> 2, cols |-> <<<<0, 0>>>>]

\* GenomeGraph(..., edge_index, edge_strategy, chunk_size, threshold) with
\* edge_index None or supplied; the other four values are also the inputs
\* of the direct builder calls
GraphInit ==
    /\ num_proteins \in NodeCounts
    /\ edge_strategy \in Strategies
    /\ chunk_size \in ChunkSizes
    /\ threshold \in Thresholds
    /\ edge_index \in {None, SuppliedEdgeIndex}
    /\ call = NoCall
    /\ ret = NoRet

\* set_edge_index that rebuilds whether or not an edge index exists
SetEdgeIndexAlways(override) ==
    /\ call' = [fn |-> "set_edge_index", override |-> override]
    /\ LET r == create_edge_index(num_proteins, edge_strategy,
                                  chunk_size, threshold)
       IN  IF r.exc # "none"
           THEN ret' = r /\ UNCHANGED edge_index
           ELSE ret' = Ok(None) /\ edge_index' = r.val
    /\ UNCHANGED <<num_proteins, edge_strategy, chunk_size, threshold>>

\* graph.set_edge_index(override=override)
SetEdgeIndex(override) ==
    /\ call' = [fn |-> "set_edge_index", override |-> override]
    /\ IF ~override /\ edge_index # None
       THEN /\ ret' = Ok(None)
            /\ UNCHANGED edge_index
       ELSE LET r == create_edge_index(num_proteins, edge_strategy,
                                       chunk_size, threshold)
            IN  IF r.exc # "none"
                THEN ret' = r /\ UNCHANGED edge_index
                ELSE ret' = Ok(None) /\ edge_index' = r.val
    /\ UNCHANGED <<num_proteins, edge_strategy, chunk_size, threshold>>

\* GenomeGraph.create_edge_index called on its own with the inputs drawn
\* by GraphInit
CallCreateEdgeIndex ==
    /\ call' = [fn |-> "create_edge_index", num_nodes |-> num_proteins,
                edge_strategy |-> edge_strategy, chunk_size |-> chunk_size,
                threshold |-> threshold]
    /\ ret' = create_edge_index(num_proteins, edge_strategy, chunk_size, threshold)
    /\ UNCHANGED <<num_proteins, edge_strategy, chunk_size, threshold, edge_index>>

\* GenomeGraph.create_sparse_graph called directly, past the check of the
\* threshold in _edge_index_create_method
CallCreateSparseGraph ==
    /\ call' = [fn |-> "create_sparse_graph", num_nodes |-> num_proteins,
                threshold |-> threshold]
    /\ ret' = create_sparse_graph(num_proteins, threshold)
    /\ UNCHANGED <<num_proteins, edge_strategy, chunk_size, threshold, edge_index>>

\* the splitter left as constructed from the example array, no split() made
CvIdle ==
    /\ labels = ExampleGroups
    /\ X_idx = GetXIndex(labels)
    /\ groups = NpUnique(labels).inverse
    /\ uniq_groups = <<0, 1, 2>>
    /\ group_counts = <<3, 2, 1>>
    /\ n_folds = NFolds(uniq_groups)
    /\ val_group_id = -1
    /\ train_group_ids = <<>>
    /\ pc = [it \in Iters |-> "idle"]
    /\ fold_idx = [it \in Iters |-> 0]
    /\ yielded = [it \in Iters |-> <<>>]

\* ------------------------------------------------------ parallel tuning
NoDevice == "none"

DeviceIds == {"0", "1"}

\* the first device_count ids of the list: the loop breaks at n > device_count
Seeded(devs, count) ==
    SubSeq(devs, 1, IF count < Len(devs) THEN count ELSE Len(devs))

\* a get that leaves the id on the queue
QueuePeek(q) == [item |-> Head(q), rest |-> q]

\* queue.get() on a queue that is not empty
QueueGet(q) == [item |-> Head(q), rest |-> Tail(q)]

\* queue.put(item)
QueuePut(q, item) == Append(q, item)

\* the n_jobs workers that run the objective
Jobs == 1..device_count

\* no tuning is under way
TuneIdle ==
    /\ device_count = 1
    /\ devices = <<"0">>
    /\ n_trials = 0
    /\ queue = <<>>
    /\ tpc = [w \in 1..1 |-> "idle"]
    /\ device_id = [w \in 1..1 |-> NoDevice]
    /\ started = 0
    /\ finished = 0
    /\ raised = 0

\* optimize(parallel=True) up to the start of the optimizer: the queue is
\* seeded and no trial has started
TuneInit ==
    /\ device_count \in 1..MaxDeviceCount
    /\ devices \in UNION {[1..n -> DeviceIds] : n \in 1..MaxListed}
    /\ n_trials \in 1..MaxTrials
    /\ queue = Seeded(devices, device_count)
    /\ tpc = [w \in 1..device_count |-> "idle"]
    /\ device_id = [w \in 1..device_count |-> NoDevice]
    /\ started = 0
    /\ finished = 0
    /\ raised = 0

\* a free job takes the next trial and enters _parallel_objective
ObjectiveEnter(w) ==
    /\ tpc[w] = "idle"
    /\ started < n_trials
    /\ started' = started + 1
    /\ tpc' = [tpc EXCEPT ![w] = "get"]
    /\ UNCHANGED <<device_count, devices, n_trials, queue, device_id,
                   finished, raised>>

\* device_id = queue.get(): blocks while the queue is empty
ObjectiveGet(w) ==
    /\ tpc[w] = "get"
    /\ queue # <<>>
    /\ device_id' = [device_id EXCEPT ![w] = QueueGet(queue).item]
    /\ queue' = QueueGet(queue).rest
    /\ tpc' = [tpc EXCEPT ![w] = "training"]
    /\ UNCHANGED <<device_count, devices, n_trials, started, finished, raised>>

\* train_with_cross_validation raises and the id is put back all the same
ObjectiveRaiseFinally(w) ==
    /\ tpc[w] = "training"
    /\ queue' = QueuePut(queue, device_id[w])
    /\ raised' = raised + 1
    /\ device_id' = [device_id EXCEPT ![w] = NoDevice]
    /\ tpc' = [tpc EXCEPT ![w] = "idle"]
    /\ UNCHANGED <<device_count, devices, n_trials, started, finished>>

\* train_with_cross_validation raises: _parallel_objective is left before
\* queue.put, its local device_id is gone
ObjectiveRaise(w) ==
    /\ tpc[w] = "training"
    /\ raised' = raised + 1
    /\ device_id' = [device_id EXCEPT ![w] = NoDevice]
    /\ tpc' = [tpc EXCEPT ![w] = "idle"]
    /\ UNCHANGED <<device_count, devices, n_trials, queue, started, finished>>

\* train_with_cross_validation returns; queue.put(device_id); return output
ObjectiveReturn(w) ==
    /\ tpc[w] = "training"
    /\ queue' = QueuePut(queue, device_id[w])
    /\ finished' = finished + 1
    /\ device_id' = [device_id EXCEPT ![w] = NoDevice]
    /\ tpc' = [tpc EXCEPT ![w] = "idle"]
    /\ UNCHANGED <<device_count, devices, n_trials, started, raised>>

Init == CvInit /\ GraphIdle /\ TuneIdle

Next ==
    \/ \E it \in Iters : Split(it) /\ UNCHANGED <<graphVars, tuneVars>>
    \/ \E it \in Iters : YieldFold(it) /\ UNCHANGED <<graphVars, tuneVars>>
    \/ \E it \in Iters : Exhaust(it) /\ UNCHANGED <<graphVars, tuneVars>>

Spec == Init /\ [][Next]_vars

InitGraph == CvIdle /\ GraphInit /\ TuneIdle

NextGraph ==
    \/ \E override \in BOOLEAN :
          SetEdgeIndex(override) /\ UNCHANGED <<cvVars, tuneVars>>
    \/ CallCreateEdgeIndex /\ UNCHANGED <<cvVars, tuneVars>>
    \/ CallCreateSparseGraph /\ UNCHANGED <<cvVars, tuneVars>>

SpecGraph == InitGraph /\ [][NextGraph]_vars

NextThreads ==
    \/ \E it \in Iters : Split(it) /\ UNCHANGED <<graphVars, tuneVars>>
    \/ \E it \in Iters : StoreValGroupId(it) /\ UNCHANGED <<graphVars, tuneVars>>
    \/ \E it \in Iters :
          StoreTrainGroupIdsAndYield(it) /\ UNCHANGED <<graphVars, tuneVars>>
    \/ \E it \in Iters : Exhaust(it) /\ UNCHANGED <<graphVars, tuneVars>>

InitThreads == CvInitThreads /\ GraphIdle /\ TuneIdle

SpecThreads == InitThreads /\ [][NextThreads]_vars

InitTune == CvIdle /\ GraphIdle /\ TuneInit

NextTune ==
    \/ \E w \in Jobs : ObjectiveEnter(w) /\ UNCHANGED <<cvVars, graphVars>>
    \/ \E w \in Jobs : ObjectiveGet(w) /\ UNCHANGED <<cvVars, graphVars>>
    \/ \E w \in Jobs : ObjectiveReturn(w) /\ UNCHANGED <<cvVars, graphVars>>
    \/ \E w \in Jobs : ObjectiveRaise(w) /\ UNCHANGED <<cvVars, graphVars>>

\* a job with a trial to take takes it, a get on a non-empty queue
\* completes and a training run ends, by returning or by raising
FairTune ==
    \A w \in 1..MaxDeviceCount :
        /\ WF_vars(w \in Jobs /\ ObjectiveEnter(w) /\ UNCHANGED <<cvVars, graphVars>>)
        /\ WF_vars(w \in Jobs /\ ObjectiveGet(w) /\ UNCHANGED <<cvVars, graphVars>>)
        /\ WF_vars(w \in Jobs /\ (ObjectiveReturn(w) \/ ObjectiveRaise(w))
                   /\ UNCHANGED <<cvVars, graphVars>>)

SpecTune == InitTune /\ [][NextTune]_vars /\ FairTune

\* ------------------------------------------------- splitter properties
NumGroups == Cardinality(Range(labels))

AllIdx == 0..(Len(labels) - 1)

\* positions (0-based) whose label in the caller's array is lab
PositionsOf(lab) == {i \in AllIdx : labels[i + 1] = lab}

MaxCount == Max({Cardinality(PositionsOf(lab)) : lab \in Range(labels)})

\* highest member count, ties broken by the smallest raw id
MajorityGroup ==
    Min({lab \in Range(labels) : Cardinality(PositionsOf(lab)) = MaxCount})

\* member counts of the distinct labels, in non-increasing order
DescCounts ==
    CHOOSE c \in [1..NumGroups -> 1..Len(labels)] :
        /\ \A i \in 1..(NumGroups - 1) : c[i] >= c[i + 1]
        /\ \A n \in 1..Len(labels) :
              Cardinality({i \in 1..NumGroups : c[i] = n})
                = Cardinality({lab \in Range(labels) :
                                 Cardinality(PositionsOf(lab)) = n})

\* C1: with k >= 2 distinct groups, no yielded fold has in val_indices an
\* index whose label is the majority group (highest count, ties broken by
\* the smallest raw id).
C1_MajorityNeverValidated ==
    NumGroups >= 2 =>
        \A it \in Iters : \A j \in DOMAIN yielded[it] :
            \A i \in Range(yielded[it][j].val_idx) :
                labels[i + 1] # MajorityGroup

\* C2: in every yielded fold val_indices is exactly the set of positions
\* labelled with the fold's validation group (val_group_id at yield time)
\* and train_indices the set of all other positions; labels [0,0,0,1,1,2]
\* give (train {0,1,2,5}, val {3,4}) and then (train {0,1,2,3,4}, val {5}).
C2_FoldIsGroupPartition ==
    /\ \A it \in Iters : \A j \in DOMAIN yielded[it] :
          /\ Range(yielded[it][j].val_idx)
               = PositionsOf(yielded[it][j].val_group_id)
          /\ Range(yielded[it][j].train_idx)
               = AllIdx \ PositionsOf(yielded[it][j].val_group_id)
    /\ labels = ExampleGroups =>
          \A it \in Iters :
             /\ Len(yielded[it]) >= 1 =>
                   /\ Range(yielded[it][1].train_idx) = {0, 1, 2, 5}
                   /\ Range(yielded[it][1].val_idx) = {3, 4}
             /\ Len(yielded[it]) >= 2 =>
                   /\ Range(yielded[it][2].train_idx) = {0, 1, 2, 3, 4}
                   /\ Range(yielded[it][2].val_idx) = {5}

\* C3: with k >= 1 distinct groups the fold count is k - 1, a generator
\* never yields more than k - 1 folds and a full iteration yields exactly
\* k - 1 of them; with one group that is 0 folds and a normal end.
C3_FoldCount ==
    /\ n_folds = NumGroups - 1
    /\ \A it \in Iters :
          /\ Len(yielded[it]) <= NumGroups - 1
          /\ pc[it] = "done" => Len(yielded[it]) = NumGroups - 1

C3_Witness ==
    \E it \in Iters :
        pc[it] = "done" /\ NumGroups = 3 /\ Len(yielded[it]) = 2

\* C4: in every yielded fold train_indices and val_indices are disjoint
\* and their union is the whole index range [0, N).
C4_FoldPartitionsRange ==
    \A it \in Iters : \A j \in DOMAIN yielded[it] :
        /\ Range(yielded[it][j].train_idx)
             \cap Range(yielded[it][j].val_idx) = {}
        /\ Range(yielded[it][j].train_idx)
             \cup Range(yielded[it][j].val_idx) = AllIdx

C4_Witness ==
    \E it \in Iters : \E j \in DOMAIN yielded[it] :
        /\ yielded[it][j].val_idx # <<>>
        /\ yielded[it][j].train_idx # <<>>
        /\ Len(labels) = MaxN

\* C5: the i-th yielded fold validates the group with the (i+1)-th highest
\* member count (its val_indices are the members of one group, as many as
\* that count), so the size of val_indices never grows between folds.
C5_DescendingFrequency ==
    \A it \in Iters :
        /\ \A j \in DOMAIN yielded[it] :
              /\ \E lab \in Range(labels) :
                    Range(yielded[it][j].val_idx) = PositionsOf(lab)
              /\ Len(yielded[it][j].val_idx) = DescCounts[j + 1]
        /\ \A j \in 1..(Len(yielded[it]) - 1) :
              Len(yielded[it][j + 1].val_idx) <= Len(yielded[it][j].val_idx)

\* C6: two split() calls on one instance yield the same sequence of
\* (train, val) index sets: the folds two generators have yielded agree
\* position by position, whatever the order in which they were consumed,
\* and two exhausted generators have yielded equally many.
C6_SplitRestartable ==
    \A a, b \in Iters :
        /\ \A j \in DOMAIN yielded[a] \cap DOMAIN yielded[b] :
              /\ Range(yielded[a][j].train_idx) = Range(yielded[b][j].train_idx)
              /\ Range(yielded[a][j].val_idx) = Range(yielded[b][j].val_idx)
        /\ (pc[a] = "done" /\ pc[b] = "done") => Len(yielded[a]) = Len(yielded[b])

\* a second call made after the first was fully consumed, both with
\* non-empty validation sets
C6_Witness ==
    /\ pc[1] = "done" /\ pc[2] = "done"
    /\ Len(yielded[1]) >= 2 /\ Len(yielded[2]) >= 2
    /\ \A j \in DOMAIN yielded[2] : yielded[2][j].val_idx # <<>>

\* ---------------------------------------------- edge-index properties
\* the ordered pairs of distinct nodes of [0, n) at distance <= d
PairsWithin(n, d) ==
    {e \in (0..(n - 1)) \X (0..(n - 1)) : e[1] # e[2] /\ Abs(e[1] - e[2]) <= d}

IsCreateEdgeIndex(strategy) ==
    call.fn = "create_edge_index" /\ call.edge_strategy = strategy

\* C7: with strategy "complete" and num_nodes >= 2 create_edge_index
\* returns num_nodes * (num_nodes - 1) edges and every ordered pair (u, v),
\* u # v, of [0, num_nodes) appears exactly once (12 edges for 4 nodes).
C7_CompleteAllPairsOnce ==
    (IsCreateEdgeIndex("complete") /\ call.num_nodes >= 2) =>
        /\ ret.exc = "none"
        /\ Len(ret.val.cols) = call.num_nodes * (call.num_nodes - 1)
        /\ \A u, v \in 0..(call.num_nodes - 1) :
              u # v => Cardinality({e \in DOMAIN ret.val.cols :
                                      ret.val.cols[e] = <<u, v>>}) = 1
        /\ call.num_nodes = 4 => Len(ret.val.cols) = 12

C7_Witness ==
    /\ IsCreateEdgeIndex("complete")
    /\ call.num_nodes = 4
    /\ ret.exc = "none"
    /\ Len(ret.val.cols) = 12

\* C8: with strategy "sparse" and a valid threshold (> 1) the edge index
\* returned is exactly the set of ordered pairs (u, v), u # v, of
\* [0, num_nodes) with |u - v| <= threshold, each once; it is returned
\* whenever num_nodes >= 2.
C8_SparseExactlyWithinThreshold ==
    (IsCreateEdgeIndex("sparse") /\ call.threshold > 1) =>
        /\ call.num_nodes >= 2 => ret.exc = "none"
        /\ ret.exc = "none" =>
              /\ Range(ret.val.cols) = PairsWithin(call.num_nodes, call.threshold)
              /\ Len(ret.val.cols)
                   = Cardinality(PairsWithin(call.num_nodes, call.threshold))

\* a call in which the filter removes pairs of the complete graph and
\* keeps pairs at exactly the threshold
C8_Witness ==
    /\ IsCreateEdgeIndex("sparse")
    /\ call.num_nodes = 5 /\ call.threshold = 2
    /\ ret.exc = "none"
    /\ <<0, 2>> \in Range(ret.val.cols)
    /\ Len(ret.val.cols) < call.num_nodes * (call.num_nodes - 1)

\* C9: create_edge_index with strategy "sparse" and threshold <= 1 (the
\* sentinel -1 included) raises ValueError for every num_nodes and
\* chunk_size and returns no edge index; a graph so configured never
\* gets an edge index from set_edge_index.
C9_SparseLowThresholdRaises ==
    /\ (IsCreateEdgeIndex("sparse") /\ call.threshold <= 1) =>
          ret = Raise("ValueError")
    /\ (edge_strategy = "sparse" /\ threshold <= 1) =>
          /\ edge_index \in {None, SuppliedEdgeIndex}
          /\ (call.fn = "set_edge_index" /\ edge_index = None) =>
                ret = Raise("ValueError")

C9_Witness ==
    /\ IsCreateEdgeIndex("sparse")
    /\ call.threshold = 1
    /\ call.num_nodes >= 2
    /\ ret.exc = "ValueError"

AdjacentEdgesOf5 ==
    {<<0, 1>>, <<1, 0>>, <<1, 2>>, <<2, 1>>, <<2, 3>>, <<3, 2>>, <<3, 4>>, <<4, 3>>}

\* C10 as stated: create_edge_index(num_nodes=5, strategy="sparse",
\* threshold=1) returns exactly the 8 edges between adjacent positions.
C10_SparseThresholdOneReturns ==
    (IsCreateEdgeIndex("sparse") /\ call.num_nodes = 5 /\ call.threshold = 1) =>
        /\ ret.exc = "none"
        /\ Range(ret.val.cols) = AdjacentEdgesOf5
        /\ Len(ret.val.cols) = 8

\* C10 amended: create_edge_index(num_nodes=5, strategy="sparse",
\* threshold=1) raises ValueError; the 8 edges between adjacent positions
\* are what create_sparse_graph(num_nodes=5, threshold=1) returns when it
\* is called directly.
C10_SparseThresholdOneAmended ==
    /\ (IsCreateEdgeIndex("sparse") /\ call.num_nodes = 5 /\ call.threshold = 1) =>
          ret.exc = "ValueError"
    /\ (call.fn = "create_sparse_graph" /\ call.num_nodes = 5
        /\ call.threshold = 1) =>
          /\ ret.exc = "none"
          /\ Range(ret.val.cols) = AdjacentEdgesOf5
          /\ Len(ret.val.cols) = 8

C10_Witness ==
    /\ call.fn = "create_sparse_graph"
    /\ call.num_nodes = 5 /\ call.threshold = 1
    /\ ret.exc = "none"
    /\ Len(ret.val.cols) = 8

\* -------------------------------------------- chunked-strategy properties
\* the local connected_comp of the last chunked call, after the merge
connected_comp == ConnectedComp(call.num_nodes, call.chunk_size)

\* whether the distance filter is to be applied in the last chunked call
FilterRequested ==
    call.threshold # _SENTINEL_THRESHOLD /\ call.threshold < call.chunk_size

\* the chunk a node belongs to: runs of size nodes, a trailing run of one
\* node joined to the run before it
ChunkOf(u, n, size) ==
    IF n > 1 /\ u = n - 1 /\ (n - 1) % size = 0
    THEN (u \div size) - 1
    ELSE u \div size

ChunkMembers(c, n, size) == {u \in 0..(n - 1) : ChunkOf(u, n, size) = c}

ChunkIds(n, size) == {ChunkOf(u, n, size) : u \in 0..(n - 1)}

\* ordered pairs of distinct nodes of one chunk at distance <= d
SameChunkPairs(n, size, d) ==
    {e \in (0..(n - 1)) \X (0..(n - 1)) :
        /\ e[1] # e[2]
        /\ ChunkOf(e[1], n, size) = ChunkOf(e[2], n, size)
        /\ Abs(e[1] - e[2]) <= d}

RECURSIVE SumOver(_, _, _)
SumOver(ids, n, size) ==
    IF ids = {} THEN 0
    ELSE LET c == CHOOSE x \in ids : TRUE
             m == Cardinality(ChunkMembers(c, n, size))
         IN  m * (m - 1) + SumOver(ids \ {c}, n, size)

RECURSIVE Flatten(_)
Flatten(ss) == IF ss = <<>> THEN <<>> ELSE Head(ss) \o Flatten(Tail(ss))

\* C11: in the chunked strategy, for num_nodes >= 2 and every positive
\* chunk_size, no chunk of the final partition has size 1.
C11_NoSingletonChunk ==
    (IsCreateEdgeIndex("chunked") /\ call.num_nodes >= 2) =>
        /\ connected_comp.exc = "none"
        /\ \A i \in DOMAIN connected_comp.val : Len(connected_comp.val[i]) # 1

\* C12: in the chunked strategy create_edge_index returns an edge index
\* without raising for every positive num_nodes and positive chunk_size
\* (num_nodes = 1 and num_nodes = chunk_size * q + 1 included).
C12_ChunkedNeverRaises ==
    IsCreateEdgeIndex("chunked") => ret.exc = "none"

\* C13: in the chunked strategy with no distance filter (threshold is the
\* sentinel or >= chunk_size) the chunks are contiguous runs partitioning
\* [0, num_nodes) in order, and the edge index is exactly the ordered pairs
\* (u, v), u # v, of nodes of one chunk in global ids, each once: no edge
\* joins two chunks and there are sum size * (size - 1) edges; 7 nodes with
\* chunk_size 3 use chunks [0,1,2],[3,4,5,6] and give 18 edges.  The edge
\* index is returned whenever num_nodes >= 2.
C13_ChunkedSameChunkPairs ==
    (IsCreateEdgeIndex("chunked") /\ ~FilterRequested) =>
        /\ call.num_nodes >= 2 => ret.exc = "none"
        /\ ret.exc = "none" =>
              /\ Flatten(connected_comp.val) = Arange(call.num_nodes)
              /\ \A i \in DOMAIN connected_comp.val :
                    \A u \in Range(connected_comp.val[i]) :
                        ChunkOf(u, call.num_nodes, call.chunk_size) = i - 1
              /\ Range(ret.val.cols)
                   = SameChunkPairs(call.num_nodes, call.chunk_size, call.num_nodes)
              /\ Len(ret.val.cols)
                   = SumOver(ChunkIds(call.num_nodes, call.chunk_size),
                             call.num_nodes, call.chunk_size)
              /\ (call.num_nodes = 7 /\ call.chunk_size = 3) =>
                    /\ connected_comp.val = <<<<0, 1, 2>>, <<3, 4, 5, 6>>>>
                    /\ Len(ret.val.cols) = 18

\* the example: 7 nodes, chunk_size 3, threshold unset
C13_Witness ==
    /\ IsCreateEdgeIndex("chunked")
    /\ call.num_nodes = 7 /\ call.chunk_size = 3
    /\ call.threshold = _SENTINEL_THRESHOLD
    /\ ret.exc = "none"
    /\ Len(ret.val.cols) = 18
    /\ <<3, 6>> \in Range(ret.val.cols)

\* C14: in the chunked strategy the distance filter is applied exactly when
\* threshold is not the sentinel and threshold < chunk_size; when applied
\* the result is exactly the pairs (u, v), u # v, of one chunk with
\* |u - v| <= threshold, otherwise every pair of one chunk is kept.  A
\* result is returned unless num_nodes = 1 or the filter meets a chunk of
\* one node.
C14_ChunkedFilter ==
    IsCreateEdgeIndex("chunked") =>
        /\ ret.exc = "none" <=>
              /\ call.num_nodes >= 2
              /\ ~(FilterRequested /\ \E c \in ChunkIds(call.num_nodes, call.chunk_size) :
                      Cardinality(ChunkMembers(c, call.num_nodes, call.chunk_size)) = 1)
        /\ ret.exc = "none" =>
              LET d == IF FilterRequested THEN call.threshold ELSE call.num_nodes
              IN  /\ Range(ret.val.cols)
                       = SameChunkPairs(call.num_nodes, call.chunk_size, d)
                  /\ Len(ret.val.cols)
                       = Cardinality(SameChunkPairs(call.num_nodes, call.chunk_size, d))

\* the filter at work inside a merged chunk
C14_Witness ==
    /\ IsCreateEdgeIndex("chunked")
    /\ call.num_nodes = 7 /\ call.chunk_size = 3 /\ call.threshold = 2
    /\ ret.exc = "none"
    /\ <<3, 5>> \in Range(ret.val.cols)
    /\ <<3, 6>> \notin Range(ret.val.cols)

\* C15: for every strategy name other than "sparse" and "chunked"
\* ("complete" and any unrecognized name) create_edge_index returns the
\* edge index of the complete strategy for that num_nodes, whatever
\* chunk_size and threshold are (threshold <= 1 included), and raises
\* nothing.
C15_FallbackToComplete ==
    (call.fn = "create_edge_index"
     /\ call.edge_strategy \notin {"sparse", "chunked"}) =>
        /\ ret.exc = "none"
        /\ Range(ret.val.cols) = PairsWithin(call.num_nodes, call.num_nodes)
        /\ Len(ret.val.cols) = call.num_nodes * (call.num_nodes - 1)

\* an unrecognized name with a threshold the sparse strategy would reject
C15_Witness ==
    /\ IsCreateEdgeIndex("other")
    /\ call.threshold = 1
    /\ call.num_nodes = 3
    /\ ret.exc = "none"
    /\ Len(ret.val.cols) = 6

Sources(t) == [e \in 1..Len(t.cols) |-> t.cols[e][1]]

Targets(t) == [e \in 1..Len(t.cols) |-> t.cols[e][2]]

WellFormedEdgeIndex(t, n) ==
    /\ t.ndim = 2
    /\ Len(Sources(t)) = Len(Targets(t))
    /\ \A e \in 1..Len(t.cols) :
          /\ Sources(t)[e] \in 0..(n - 1)
          /\ Targets(t)[e] \in 0..(n - 1)
          /\ Sources(t)[e] # Targets(t)[e]

\* C16: for every strategy and accepted parameters with num_nodes >= 2 the
\* returned edge index is two equal-length sequences (sources, targets)
\* with all values in [0, num_nodes) and no self-loop; the same holds for
\* an edge index that set_edge_index has built.
C16_EdgeIndexWellFormed ==
    /\ (call.fn \in {"create_edge_index", "create_sparse_graph"}
        /\ call.num_nodes >= 2 /\ ret.exc = "none") =>
          WellFormedEdgeIndex(ret.val, call.num_nodes)
    /\ (edge_index \notin {None, SuppliedEdgeIndex} /\ num_proteins >= 2) =>
          WellFormedEdgeIndex(edge_index, num_proteins)

\* a chunked result whose last chunk is shifted by the offset
C16_Witness ==
    /\ IsCreateEdgeIndex("chunked")
    /\ call.num_nodes = 6 /\ call.chunk_size = 2
    /\ ret.exc = "none"
    /\ <<5, 4>> \in Range(ret.val.cols)
    /\ WellFormedEdgeIndex(ret.val, call.num_nodes)

\* the edges the stored configuration of the graph stands for
ConfiguredEdges ==
    IF edge_strategy = "sparse" THEN PairsWithin(num_proteins, threshold)
    ELSE IF edge_strategy = "chunked"
    THEN SameChunkPairs(num_proteins, chunk_size,
                        IF threshold # _SENTINEL_THRESHOLD /\ threshold < chunk_size
                        THEN threshold ELSE num_proteins)
    ELSE PairsWithin(num_proteins, num_proteins)

\* C17: a set_edge_index call on a graph that has an edge index, made with
\* override false, leaves the edge index as it was and returns without
\* running the builder (it cannot raise); the edge index changes only in a
\* call that finds none or has override true, and then it is the one built
\* from num_proteins and the stored strategy, chunk size and threshold, or
\* stays as it was when the builder raises.
C17_SetEdgeIndexIdempotent ==
    [][call'.fn = "set_edge_index" =>
         IF ~call'.override /\ edge_index # None
         THEN edge_index' = edge_index /\ ret' = Ok(None)
         ELSE /\ ret'.exc # "none" => edge_index' = edge_index
              /\ ret'.exc = "none" =>
                    /\ Range(edge_index'.cols) = ConfiguredEdges
                    /\ Len(edge_index'.cols) = Cardinality(ConfiguredEdges)]_vars

\* a call without override on a graph constructed with an edge index and
\* with a configuration on which the builder would raise
C17_Witness ==
    /\ call.fn = "set_edge_index" /\ ~call.override
    /\ edge_index = SuppliedEdgeIndex
    /\ edge_strategy = "sparse" /\ threshold = _SENTINEL_THRESHOLD
    /\ ret = Ok(None)

\* ------------------------------------------- splitter table properties
RECURSIVE SumSeq(_)
SumSeq(q) == IF q = <<>> THEN 0 ELSE Head(q) + SumSeq(Tail(q))

\* C18: after construction the group table maps every item back to its
\* own label: unique_groups[group_of[i]] is the raw label of item i, for
\* every position i.
C18_GroupOfIndexesTable ==
    \A i \in 1..Len(labels) : uniq_groups[groups[i] + 1] = labels[i]

\* C19: after construction on N items with k distinct labels,
\* unique_groups has k entries (the distinct labels), group_counts[j] is
\* the number of items labelled unique_groups[j], the counts sum to N and
\* never increase, and unique_groups[0] is a group of maximal count.
C19_TableAligned ==
    /\ Len(uniq_groups) = NumGroups
    /\ Range(uniq_groups) = Range(labels)
    /\ Len(group_counts) = NumGroups
    /\ \A j \in 1..NumGroups :
          group_counts[j] = Cardinality(PositionsOf(uniq_groups[j]))
    /\ SumSeq(group_counts) = Len(labels)
    /\ \A j \in 1..(NumGroups - 1) : group_counts[j] >= group_counts[j + 1]
    /\ Cardinality(PositionsOf(uniq_groups[1])) = MaxCount

\* a table that the sort had to reorder
C19_Witness ==
    /\ labels = <<1, 1, 0>>
    /\ uniq_groups = <<1, 0>>
    /\ group_counts = <<2, 1>>

\* C20: the step in which a generator yields its j-th fold leaves
\* val_group_id = g, the group at position j of the frequency-ordered
\* table (never the one at position 0, a group of maximal count), and
\* train_group_ids = every distinct group id except g, the majority group
\* included, k - 1 entries; the next yield overwrites both.
C20_BookkeepingAtYield ==
    [][\A it \in Iters :
          Len(yielded'[it]) = Len(yielded[it]) + 1 =>
             LET j == Len(yielded'[it])
                 g == uniq_groups[j + 1]
             IN  /\ val_group_id' = g
                 /\ yielded'[it][j].val_group_id = g
                 /\ g # uniq_groups[1]
                 /\ Cardinality(PositionsOf(uniq_groups[1])) = MaxCount
                 /\ Range(train_group_ids') = Range(labels) \ {g}
                 /\ Len(train_group_ids') = NumGroups - 1
                 /\ uniq_groups[1] \in Range(train_group_ids')]_vars

\* the fields after a second fold has overwritten those of the first
C20_Witness ==
    \E it \in Iters :
        /\ Len(yielded[it]) = 2
        /\ NumGroups = 3
        /\ val_group_id = uniq_groups[3]
        /\ Len(train_group_ids) = 2
        /\ uniq_groups[1] \in Range(train_group_ids)
        /\ uniq_groups[2] \in Range(train_group_ids)


\* ------------------------------------------------ interleaved iterations
\* the table entry of the fold generator `it` yielded last
LastGroupOf(it) == uniq_groups[Len(yielded[it]) + 1]

\* the table without g, in table order
OthersOf(g) == SelectSeq(uniq_groups, LAMBDA x : x # g)

\* generator `it` is suspended and its consumer holds a fold
HoldsFold(it) == pc[it] \in {"running", "done"} /\ yielded[it] # <<>>

\* what the other generators stored last in val_group_id
ValStoresOfOthers(it) ==
    {uniq_groups[NextYieldIdx(fold_idx[o]) + 1] :
        o \in {x \in Iters \ {it} : pc[x] = "stored"}}
    \cup {LastGroupOf(o) : o \in {x \in Iters \ {it} : yielded[x] # <<>>}}

\* what the other generators stored last in train_group_ids
TrainStoresOfOthers(it) ==
    {OthersOf(LastGroupOf(o)) : o \in {x \in Iters \ {it} : yielded[x] # <<>>}}

\* C21: the bookkeeping fields are shared by all iterations of an instance:
\* while a consumer holds a fold, val_group_id and train_group_ids describe
\* that fold unless another iteration has stored its own values over them,
\* and then they hold that other iteration's values (every fold yielded
\* belongs to a table entry after the first).  The witness is the
\* state in which both fields differ from the fold a consumer received last.
C21_FieldsSharedByIterations ==
    \A it \in Iters :
        HoldsFold(it) =>
            /\ \A o \in Iters : Len(yielded[o]) < Len(uniq_groups)
            /\ val_group_id \in {LastGroupOf(it)} \cup ValStoresOfOthers(it)
            /\ train_group_ids \in
                   {OthersOf(LastGroupOf(it))} \cup TrainStoresOfOthers(it)

C21_Witness ==
    /\ HoldsFold(1)
    /\ pc[1] = "running"
    /\ val_group_id # LastGroupOf(1)
    /\ train_group_ids # OthersOf(LastGroupOf(1))
    /\ yielded[1][Len(yielded[1])].val_group_id = LastGroupOf(1)


\* ------------------------------------------------------- chunk sizes
\* a run of consecutive node positions
IsRun(chunk) ==
    /\ chunk # <<>>
    /\ \A k \in 1..(Len(chunk) - 1) : chunk[k + 1] = chunk[k] + 1

\* the chunks are contiguous runs that partition [0, num_nodes) in order
ChunksAreRuns ==
    /\ Flatten(connected_comp.val) = Arange(call.num_nodes)
    /\ \A i \in DOMAIN connected_comp.val : IsRun(connected_comp.val[i])

\* the chunking leaves one node over, which is joined to the last chunk
TrailingSingleton ==
    call.num_nodes >= 2 /\ (call.num_nodes - 1) % call.chunk_size = 0

\* C22 as stated: in the chunked strategy every chunk of the final
\* partition is a contiguous run of node positions of size at most
\* chunk_size, for every num_nodes and chunk_size.
C22_ChunkSizeAtMostChunkSize ==
    (IsCreateEdgeIndex("chunked") /\ connected_comp.exc = "none") =>
        /\ ChunksAreRuns
        /\ \A i \in DOMAIN connected_comp.val :
              Len(connected_comp.val[i]) <= call.chunk_size

\* C22 amended: in the chunked strategy every chunk of the final partition
\* is a contiguous run of node positions; every chunk but the last has
\* size at most chunk_size, and the last chunk has size chunk_size + 1
\* exactly when a trailing chunk of one node was joined to it
\* (num_nodes = chunk_size * q + 1, q >= 1) and size at most chunk_size
\* otherwise.
C22_ChunkSizeAmended ==
    (IsCreateEdgeIndex("chunked") /\ connected_comp.exc = "none") =>
        LET cc == connected_comp.val
        IN  /\ ChunksAreRuns
            /\ \A i \in 1..(Len(cc) - 1) : Len(cc[i]) <= call.chunk_size
            /\ TrailingSingleton => Len(cc[Len(cc)]) = call.chunk_size + 1
            /\ ~TrailingSingleton => Len(cc[Len(cc)]) <= call.chunk_size

\* 7 nodes, chunk_size 3: the last chunk [3,4,5,6] has 4 nodes
C22_Witness ==
    /\ IsCreateEdgeIndex("chunked")
    /\ call.num_nodes = 7 /\ call.chunk_size = 3
    /\ connected_comp = Ok(<<<<0, 1, 2>>, <<3, 4, 5, 6>>>>)
    /\ ret.exc = "none"
    /\ <<6, 3>> \in Range(ret.val.cols)


\* ------------------------------------------------------ order of edges
\* (source, target) pairs in lexicographic order
LexLess(e, f) == e[1] < f[1] \/ (e[1] = f[1] /\ e[2] < f[2])

\* the columns of t are in strictly increasing lexicographic order
LexOrdered(t) ==
    \A e \in 1..(Len(t.cols) - 1) : LexLess(t.cols[e], t.cols[e + 1])

\* the chunk of each edge of the last chunked call, in column order
EdgeChunks(t) ==
    [e \in 1..Len(t.cols) |->
        ChunkOf(t.cols[e][1], call.num_nodes, call.chunk_size)]

NonDecreasing(xs) == \A e \in 1..(Len(xs) - 1) : xs[e] <= xs[e + 1]

\* C23: every builder emits the edge index in a fixed order: the complete
\* and the sparse strategy (and create_sparse_graph) in lexicographic
\* (source, target) order; the chunked strategy chunk after chunk in chunk
\* order and in lexicographic order inside a chunk.  The sources are
\* non-decreasing for every strategy, and an edge index built by
\* set_edge_index is the sequence create_edge_index returns for the same
\* configuration.
C23_EdgesInFixedOrder ==
    /\ (call.fn \in {"create_edge_index", "create_sparse_graph"}
        /\ ret.exc = "none") =>
          /\ NonDecreasing(Sources(ret.val))
          /\ LexOrdered(ret.val)
    /\ edge_index \notin {None, SuppliedEdgeIndex} =>
          /\ NonDecreasing(Sources(edge_index))
          /\ LexOrdered(edge_index)
    /\ (IsCreateEdgeIndex("chunked") /\ ret.exc = "none") =>
          /\ NonDecreasing(EdgeChunks(ret.val))
          /\ \A e \in 1..(Len(ret.val.cols) - 1) :
                EdgeChunks(ret.val)[e] = EdgeChunks(ret.val)[e + 1] =>
                    LexLess(ret.val.cols[e], ret.val.cols[e + 1])
    /\ (call.fn = "create_edge_index" /\ ret.exc = "none"
        /\ edge_index \notin {None, SuppliedEdgeIndex}) =>
          ret.val = edge_index

\* a chunked call with two chunks of several edges each, after
\* set_edge_index built the same graph
C23_Witness ==
    /\ IsCreateEdgeIndex("chunked")
    /\ call.num_nodes = 5 /\ call.chunk_size = 2
    /\ ret.exc = "none"
    /\ Sources(ret.val) = <<0, 1, 2, 2, 3, 3, 4, 4>>
    /\ edge_index = ret.val


\* ------------------------------------------------- labels 0..k-1
\* the labels are exactly the integers 0..k-1, each occurring
ContiguousLabels == Range(labels) = 0..(NumGroups - 1)

\* the position of a label in the ascending table of distinct labels, which
\* is what np.unique's inverse holds for its items
AscIndexOf(lab) == Cardinality({x \in Range(labels) : x < lab})

AloneValSet(j) == {i \in AllIdx : groups[i + 1] = uniq_groups[j + 1]}

\* s lists exactly the members of S, in increasing order
ListsInOrder(s, S) ==
    /\ Len(s) = Cardinality(S)
    /\ \A k \in DOMAIN s : s[k] \in S
    /\ \A k \in 1..(Len(s) - 1) : s[k] < s[k + 1]

\* C25: the (train_indices, val_indices) pairs a split() iteration yields
\* do not depend on how it is interleaved with other iterations of the same
\* instance: its j-th pair is the j-th pair of an iteration that runs
\* alone (the items whose entry of self.groups is entry j of the table as
\* val_indices, the other items as train_indices, both in increasing
\* order), it yields no more than one pair per non-first table entry, and
\* an exhausted iteration has yielded all of them.
C25_PairsIndependentOfInterleaving ==
    \A it \in Iters :
        /\ \A j \in DOMAIN yielded[it] :
              /\ ListsInOrder(yielded[it][j].train_idx, AllIdx \ AloneValSet(j))
              /\ ListsInOrder(yielded[it][j].val_idx, AloneValSet(j))
        /\ Len(yielded[it]) <= Len(uniq_groups) - 1
        /\ pc[it] = "done" => Len(yielded[it]) = Len(uniq_groups) - 1

\* the second iteration stored its val_group_id between the two stores of
\* the first, which then yielded its second pair
C25_Witness ==
    /\ pc[1] = "done" /\ pc[2] = "stored"
    /\ Len(yielded[1]) = 2 /\ Len(yielded[2]) = 1
    /\ yielded[1][2].val_group_id # uniq_groups[3]
    /\ yielded[1][2].val_idx # yielded[1][1].val_idx


\* ------------------------------------------------- chunked edge distance
\* the last chunk of the partition of the last chunked call
LastChunk == connected_comp.val[Len(connected_comp.val)]

\* C26: in the chunked strategy every edge (u, v) produced satisfies
\* |u - v| <= chunk_size, the distance chunk_size occurring only between
\* nodes of a merged trailing chunk of chunk_size + 1 nodes; so whenever
\* threshold is not the sentinel every edge satisfies |u - v| <= threshold,
\* also when threshold >= chunk_size and the filter is skipped.
C26_ChunkedDistanceBound ==
    (IsCreateEdgeIndex("chunked") /\ ret.exc = "none") =>
        \A e \in Range(ret.val.cols) :
            /\ Abs(e[1] - e[2]) <= call.chunk_size
            /\ Abs(e[1] - e[2]) = call.chunk_size =>
                  /\ Len(LastChunk) = call.chunk_size + 1
                  /\ {e[1], e[2]} \subseteq Range(LastChunk)
            /\ call.threshold # _SENTINEL_THRESHOLD =>
                  Abs(e[1] - e[2]) <= call.threshold

\* threshold = chunk_size: the filter is skipped and the merged chunk
\* [0,1,2,3] has an edge at distance 3
C26_Witness ==
    /\ IsCreateEdgeIndex("chunked")
    /\ call.num_nodes = 4 /\ call.chunk_size = 3 /\ call.threshold = 3
    /\ ~FilterRequested
    /\ ret.exc = "none"
    /\ <<0, 3>> \in Range(ret.val.cols)


\* ------------------------------------------------ one chunk for all nodes
\* all nodes of the last call fall into one chunk
SingleChunk ==
    \/ 2 <= call.num_nodes /\ call.num_nodes <= call.chunk_size
    \/ call.num_nodes = call.chunk_size + 1 /\ call.chunk_size >= 1

\* C27: when all nodes fit in one chunk (2 <= num_nodes <= chunk_size, or
\* num_nodes = chunk_size + 1), the chunked strategy returns the edge
\* sequence of the complete strategy if threshold is the sentinel or
\* >= chunk_size, and the edge sequence of
\* create_sparse_graph(num_nodes, threshold) if threshold is not the
\* sentinel and < chunk_size.
C27_SingleChunkRefines ==
    (IsCreateEdgeIndex("chunked") /\ SingleChunk) =>
        /\ connected_comp = Ok(<<Arange(call.num_nodes)>>)
        /\ ret.exc = "none"
        /\ ~FilterRequested =>
              /\ ret.val = create_fully_connected_graph(call.num_nodes)
              /\ ret = create_edge_index(call.num_nodes, "complete",
                                         call.chunk_size, call.threshold)
        /\ FilterRequested =>
              ret = create_sparse_graph(call.num_nodes, call.threshold)

\* 4 nodes in the merged chunk [0,1,2,3], threshold 2 < chunk_size 3: the
\* filter drops (0,3) and (3,0) as create_sparse_graph(4, 2) does
C27_Witness ==
    /\ IsCreateEdgeIndex("chunked")
    /\ call.num_nodes = 4 /\ call.chunk_size = 3 /\ call.threshold = 2
    /\ SingleChunk /\ FilterRequested
    /\ ret.exc = "none"
    /\ Len(ret.val.cols) = 10
    /\ <<0, 3>> \notin Range(ret.val.cols)
    /\ <<0, 2>> \in Range(ret.val.cols)


\* ------------------------------------------------------- device queue
\* the ids listed in CUDA_VISIBLE_DEVICES are distinct
DistinctIds ==
    \A i, j \in DOMAIN devices : i # j => devices[i] # devices[j]

\* the jobs whose trial holds a device and trains
Training == {w \in Jobs : tpc[w] = "training"}

\* the jobs whose trial is inside queue.get
Waiting == {w \in Jobs : tpc[w] = "get"}

\* min(device_count, number of listed devices)
SeededCount == Min({device_count, Len(devices)})

\* C28: in parallel tuning device ids are handed out exclusively.  With
\* distinct ids in CUDA_VISIBLE_DEVICES no two trials that train at the same
\* time hold the same id and no id held is also on the queue; the number of
\* trials training at once never exceeds the number of ids seeded, which is
\* min(device_count, number of listed devices); a trial that finds the
\* queue empty stays in queue.get, and a trial leaves queue.get only with
\* the id that was at the head of a non-empty queue.
C28_DevicesExclusive ==
    /\ [](/\ Len(Seeded(devices, device_count)) = SeededCount
          /\ Cardinality(Training) <= SeededCount
          /\ \A w \in Training : device_id[w] \in Range(Seeded(devices, device_count))
          /\ DistinctIds =>
                /\ \A v, w \in Training : v # w => device_id[v] # device_id[w]
                /\ \A w \in Training : device_id[w] \notin Range(queue))
    /\ [][\A w \in Waiting :
             /\ queue = <<>> => tpc'[w] = "get"
             /\ tpc'[w] # "get" =>
                   /\ queue # <<>>
                   /\ tpc'[w] = "training"
                   /\ device_id'[w] = Head(queue)
                   /\ queue' = Tail(queue)]_vars

\* three jobs and two distinct ids: two trials train on different devices
\* and the third waits in queue.get on the empty queue
C28_Witness ==
    /\ device_count = 3
    /\ devices = <<"0", "1">>
    /\ Cardinality(Training) = 2
    /\ \A v, w \in Training : v # w => device_id[v] # device_id[w]
    /\ Cardinality(Waiting) = 1
    /\ queue = <<>>


\* ------------------------------------------------------ lost device ids
\* occurrences of d in a sequence of ids
CountOf(q, d) == Cardinality({i \in DOMAIN q : q[i] = d})

\* the queue holds the ids it was seeded with, in some order
QueueAsSeeded ==
    \A d \in DeviceIds : CountOf(queue, d) = CountOf(Seeded(devices, device_count), d)

\* ids on the queue or held by a training trial
Available == Len(queue) + Cardinality(Training)

\* C29: a device id is put back only when train_with_cross_validation
\* returns normally.  A trial that raises leaves the queue as it is and its
\* id is never returned, so the ids available (queued or held) are the
\* seeded ones less one per raised trial; once every seeded id is lost the
\* queue is empty, no trial trains and a trial in queue.get stays there for
\* ever.  If no trial raises, every trial in queue.get eventually obtains a
\* device, all n_trials trials eventually finish, and when they have
\* finished the queue holds the ids it was seeded with.
C29_DeviceLostOnRaise ==
    /\ [](/\ Available = SeededCount - raised
          /\ raised = SeededCount => (queue = <<>> /\ Training = {})
          /\ (raised = 0 /\ finished = n_trials) => QueueAsSeeded)
    /\ [][/\ raised' = raised + 1 =>
                /\ queue' = queue
                /\ Len(queue') + Cardinality(Training') = Available - 1
          /\ Len(queue') > Len(queue) =>
                /\ finished' = finished + 1
                /\ raised' = raised
          /\ raised = SeededCount =>
                /\ raised' = SeededCount
                /\ \A w \in Waiting : tpc'[w] = "get"]_vars
    /\ \A w \in 1..MaxDeviceCount :
          (w \in Jobs /\ tpc[w] = "get")
             ~> ((w \in Jobs /\ tpc[w] = "training") \/ raised > 0)
    /\ <>(raised > 0 \/ (finished = n_trials /\ QueueAsSeeded))

\* both seeded ids were lost to raising trials and a later trial is stuck
\* in queue.get on the empty queue
C29_Witness ==
    /\ SeededCount = 2
    /\ raised = 2
    /\ queue = <<>>
    /\ Training = {}
    /\ Waiting # {}
    /\ started = 3

====
